---- MODULE Spec2Model ----
(***************************************************************************)
(* dependency_runner: the DLL lookup path (src/src/path.rs), the           *)
(* filesystem cache (src/src/system.rs), the executables graph             *)
(* (src/src/executable.rs) and the resolver loop (src/src/runner.rs).      *)
(*                                                                         *)
(* Modelling conventions                                                   *)
(*  - Option<T> is a sequence of length 0 (None) or 1 (Some).              *)
(*  - A file name is a record [stem, cs, ext]; cs is the spelling of the   *)
(*    whole name: "lower" (lib.dll), "mixed" (Lib.dll: capitalised stem,   *)
(*    lowercase extension) or "upper" (LIB.DLL).  All letters are ASCII,   *)
(*    where str::to_lowercase and str::to_ascii_lowercase agree.           *)
(*  - A directory is a sequence of path components; a full path is a       *)
(*    record [dir, name].                                                  *)
(*  - usize is scaled down to 0..UsizeMax.                                 *)
(***************************************************************************)
EXTENDS Integers, Sequences, FiniteSets, TLC

VARIABLES
    query,                  \* LookupQuery: system, target, parameters
    files,                  \* the files on disk: [dir, name, export, imports, pe]
    dirs,                   \* the directories that exist and can be enumerated
    overflow_checks,        \* the build panics on integer overflow (debug profile)
    entries,                \* LookupPath.entries
    fs_cache,               \* WinFileSystemCache.files_in_dirs
    executables_to_lookup,  \* Runner.executables_to_lookup (a Vec used as a stack)
    executables_found,      \* Runner.executables_found.index
    pc,                     \* position of Runner::run
    looked,                 \* history: the queue entries that reached search_dll
    discarded,              \* history: the queue entries dropped by the depth test
    enqueued,               \* history: the queue entries ever pushed
    probe                   \* history: the last direct call of an operation

vars == <<query, files, dirs, overflow_checks, entries, fs_cache, executables_to_lookup,
          executables_found, pc, looked, discarded, enqueued, probe>>

-----------------------------------------------------------------------------
(* Bounds of the model *)

MaxDeps == 2        \* longest import table of the target executable
UsizeMax == 5       \* stands for usize::MAX
MaxDepthCap == 2    \* largest finite max_depth of a query
MaxPath == 2        \* longest user path and longest system PATH of a query
MaxGraphDepth == 1  \* deepest record inserted into a graph directly
MaxReadDirs == 2    \* most calls of fs::read_dir on one directory
MaxLines == 2       \* longest .dwp file, in lines

-----------------------------------------------------------------------------
(* Option<T> *)

None == <<>>
Some(x) == <<x>>
IsSome(o) == Len(o) = 1
UnwrapOr(o, d) == IF Len(o) = 1 THEN o[1] ELSE d

(* Result<T, LookupError> *)
Ok(v) == [ok |-> TRUE, val |-> v]
Err == [ok |-> FALSE, val |-> None]

-----------------------------------------------------------------------------
(* File names and paths *)

Nm(s, c, e) == [stem |-> s, cs |-> c, ext |-> e]

to_lowercase(n) == [n EXCEPT !.cs = "lower"]

\* str::trim_end_matches(".dll") compares bytes: it strips a lowercase
\* extension only.
trim_end_matches_dll(n) ==
    IF n.ext = "dll" /\ n.cs # "upper" THEN [n EXCEPT !.ext = ""] ELSE n

Path(d, n) == [dir |-> d, name |-> n]
join(d, c) == Append(d, c)

AppDir == <<"app">>
WorkDir == <<"wd">>
WinDir == <<"Windows">>
SysDir == <<"Windows", "System32">>
DownDir == join(SysDir, "downlevel")
PathDir(i) == <<"path", i>>
UserDir(i) == <<"user", i>>

-----------------------------------------------------------------------------
(* Filesystem cache: src/src/system.rs *)

FilesIn(folder) == {f \in files : f.dir = folder}

\* fs::read_dir + the lowercased-name -> on-disk-name map of scan_folder
DirSnapshot(folder) ==
    [k \in {to_lowercase(f.name) : f \in FilesIn(folder)} |->
        (CHOOSE f \in FilesIn(folder) : to_lowercase(f.name) = k).name]

\* scan_folder: the cache after the call, and whether read_dir succeeded
scan_folder(cache, folder) ==
    IF folder \in DOMAIN cache THEN [ok |-> TRUE, cache |-> cache]
    ELSE IF folder \notin dirs THEN [ok |-> FALSE, cache |-> cache]
    ELSE [ok |-> TRUE, cache |-> cache @@ (folder :> DirSnapshot(folder))]

\* whether a probe of folder calls fs::read_dir: the folder has no snapshot
\* (system.rs 215-217, 241-242)
reads_dir(cache, folder) == folder \notin DOMAIN cache

\* mutant: the probed name is looked up in the snapshot as it is spelled
test_file_in_folder_exact(cache, filename, folder) ==
    LET s == IF folder \in DOMAIN cache
             THEN [ok |-> TRUE, cache |-> cache]
             ELSE scan_folder(cache, folder)
    IN  IF ~s.ok \/ folder \notin DOMAIN s.cache
        THEN [ok |-> FALSE, val |-> None, cache |-> s.cache]
        ELSE LET dir == s.cache[folder]
             IN  [ok |-> TRUE,
                  val |-> IF filename \in DOMAIN dir
                          THEN Some(Path(folder, dir[filename])) ELSE None,
                  cache |-> s.cache]

\* returns [ok, val: Option<PathBuf>, cache]
test_file_in_folder_case_insensitive(cache, filename, folder) ==
    LET s == IF folder \in DOMAIN cache
             THEN [ok |-> TRUE, cache |-> cache]
             ELSE scan_folder(cache, folder)
    IN  IF ~s.ok \/ folder \notin DOMAIN s.cache
        THEN [ok |-> FALSE, val |-> None, cache |-> s.cache]
        ELSE LET dir == s.cache[folder]
                 k == to_lowercase(filename)
             IN  [ok |-> TRUE,
                  val |-> IF k \in DOMAIN dir
                          THEN Some(Path(folder, dir[k])) ELSE None,
                  cache |-> s.cache]

-----------------------------------------------------------------------------
(* Lookup path: src/src/path.rs *)

KnownDLLsEntry(kd) == [kind |-> "KnownDLLs", table |-> kd]
ApiSetEntry(am) == [kind |-> "ApiSet", map |-> am]
DirEntry(k, p) == [kind |-> k, path |-> p]

is_system(e) == e.kind \in {"KnownDLLs", "ApiSet", "WindowsDir", "SystemDir"}

get_path(e) ==
    IF e.kind \in {"KnownDLLs", "ApiSet"} THEN None ELSE Some(e.path)

\* Vec::concat of a sequence of sequences
RECURSIVE concat(_)
concat(ss) == IF ss = <<>> THEN <<>> ELSE Head(ss) \o concat(Tail(ss))

\* mutant: the system PATH is taken in reverse
system_path_entries_reversed(system) ==
    LET sp == UnwrapOr(system.system_path, <<>>)
    IN  [i \in 1..Len(sp) |-> DirEntry("SystemPath", sp[Len(sp) + 1 - i])]

system_path_entries(system) ==
    LET sp == UnwrapOr(system.system_path, <<>>)
    IN  [i \in 1..Len(sp) |-> DirEntry("SystemPath", sp[i])]

user_path_entries(q) ==
    [i \in 1..Len(q.target.user_path) |-> DirEntry("UserPath", q.target.user_path[i])]

\* mutant: the api sets are consulted after the directories of the application
deduce_apiset_late(q) ==
    IF IsSome(q.system)
    THEN LET system == q.system[1]
             knowndlls_entry == IF IsSome(system.known_dlls)
                                THEN <<KnownDLLsEntry(system.known_dlls[1])>>
                                ELSE <<>>
             apiset_entry == IF IsSome(system.apiset_map)
                             THEN <<ApiSetEntry(system.apiset_map[1])>>
                             ELSE <<>>
             system_entries == <<DirEntry("SystemDir", system.sys_dir),
                                 DirEntry("WindowsDir", system.win_dir)>>
         IN  IF UnwrapOr(system.safe_dll_search_mode_on, TRUE)
             THEN concat(<<knowndlls_entry,
                           <<DirEntry("ExecutableDir", q.target.app_dir)>>,
                           apiset_entry,
                           system_entries,
                           <<DirEntry("WorkingDir", q.target.working_dir)>>,
                           system_path_entries(system),
                           user_path_entries(q)>>)
             ELSE concat(<<knowndlls_entry,
                           <<DirEntry("ExecutableDir", q.target.app_dir),
                             DirEntry("WorkingDir", q.target.working_dir)>>,
                           apiset_entry,
                           system_entries,
                           system_path_entries(system),
                           user_path_entries(q)>>)
    ELSE concat(<<<<DirEntry("ExecutableDir", q.target.app_dir),
                    DirEntry("WorkingDir", q.target.working_dir)>>,
                  user_path_entries(q)>>)

deduce(q) ==
    IF IsSome(q.system)
    THEN LET system == q.system[1]
             knowndlls_entry == IF IsSome(system.known_dlls)
                                THEN <<KnownDLLsEntry(system.known_dlls[1])>>
                                ELSE <<>>
             apiset_entry == IF IsSome(system.apiset_map)
                             THEN <<ApiSetEntry(system.apiset_map[1])>>
                             ELSE <<>>
             system_entries == <<DirEntry("SystemDir", system.sys_dir),
                                 DirEntry("WindowsDir", system.win_dir)>>
         IN  IF UnwrapOr(system.safe_dll_search_mode_on, TRUE)
             THEN concat(<<knowndlls_entry,
                           apiset_entry,
                           <<DirEntry("ExecutableDir", q.target.app_dir)>>,
                           system_entries,
                           <<DirEntry("WorkingDir", q.target.working_dir)>>,
                           system_path_entries(system),
                           user_path_entries(q)>>)
             ELSE concat(<<knowndlls_entry,
                           apiset_entry,
                           <<DirEntry("ExecutableDir", q.target.app_dir),
                             DirEntry("WorkingDir", q.target.working_dir)>>,
                           system_entries,
                           system_path_entries(system),
                           user_path_entries(q)>>)
    ELSE concat(<<<<DirEntry("ExecutableDir", q.target.app_dir),
                    DirEntry("WorkingDir", q.target.working_dir)>>,
                  user_path_entries(q)>>)

\* mutant: the name is looked up in the table as it is spelled
search_dll_in_known_dlls_exact(kd, library) ==
    IF library \in DOMAIN kd THEN Ok(Some(kd[library])) ELSE Ok(None)

\* KnownDLLList::search_dll_in_known_dlls (system.rs)
search_dll_in_known_dlls(kd, library) ==
    IF to_lowercase(library) \in DOMAIN kd
    THEN Ok(Some(kd[to_lowercase(library)]))
    ELSE Ok(None)

\* entries.iter().find(|e| matches!(e, SystemDir(_)))
FindSystemDir(es) ==
    LET I == {i \in 1..Len(es) : es[i].kind = "SystemDir"}
    IN  IF I = {} THEN None
        ELSE Some(es[CHOOSE i \in I : \A j \in I : i <= j])

LookupResult(loc, p) == [location |-> loc, fullpath |-> p]

\* The loop of search_dll from entry i on.
\* Returns [ok, val: Option<LookupResult>, cache].
RECURSIVE search_from(_, _, _, _)
search_from(es, i, library, cache) ==
    IF i > Len(es) THEN [ok |-> TRUE, val |-> None, cache |-> cache]
    ELSE LET e == es[i] IN
      CASE e.kind = "KnownDLLs" ->
             LET r == search_dll_in_known_dlls(e.table, library)
             IN  IF r.ok /\ IsSome(r.val)
                 THEN [ok |-> TRUE, val |-> Some(LookupResult(e, r.val[1])),
                       cache |-> cache]
                 ELSE search_from(es, i + 1, library, cache)
        [] e.kind = "ApiSet" ->
             LET apiset_name == trim_end_matches_dll(to_lowercase(library))
                 system32_dir == FindSystemDir(es)
             IN  IF apiset_name \in DOMAIN e.map /\ IsSome(system32_dir)
                 THEN LET p == test_file_in_folder_case_insensitive(
                                   cache, library,
                                   join(system32_dir[1].path, "downlevel"))
                      IN  \* return p.map(|p| Some(LookupResult {.., fullpath: p?}))
                          [ok |-> p.ok,
                           val |-> IF p.ok /\ IsSome(p.val)
                                   THEN Some(LookupResult(e, p.val[1]))
                                   ELSE None,
                           cache |-> p.cache]
                 ELSE search_from(es, i + 1, library, cache)
        [] OTHER ->
             LET r == test_file_in_folder_case_insensitive(cache, library, e.path)
             IN  IF ~r.ok THEN [ok |-> FALSE, val |-> None, cache |-> r.cache]
                 ELSE IF IsSome(r.val)
                 THEN [ok |-> TRUE, val |-> Some(LookupResult(e, r.val[1])),
                       cache |-> r.cache]
                 ELSE search_from(es, i + 1, library, r.cache)

search_dll(es, library, cache) == search_from(es, 1, library, cache)

-----------------------------------------------------------------------------
(* Dependency Walker path files: src/src/path.rs 153-228 *)

\* a line of a .dwp file is the sequence of its characters; the characters
\* after "UserDir " are the components of a directory
Line_SxS == <<"S", "x", "S">>
Line_KnownDLLs == <<"K", "n", "o", "w", "n", "D", "L", "L", "s">>
Line_AppDir == <<"A", "p", "p", "D", "i", "r">>
Line_32BitSysDir == <<"3", "2", "B", "i", "t", "S", "y", "s", "D", "i", "r">>
Line_16BitSysDir == <<"1", "6", "B", "i", "t", "S", "y", "s", "D", "i", "r">>
Line_OSDir == <<"O", "S", "D", "i", "r">>
Line_AppPath == <<"A", "p", "p", "P", "a", "t", "h">>
Line_SysPath == <<"S", "y", "s", "P", "a", "t", "h">>
Prefix_UserDir == <<"U", "s", "e", "r", "D", "i", "r", " ">>

comment_chars == {":", ";", "/", "'", "#"}

starts_with(s, prefix) ==
    Len(s) >= Len(prefix) /\ SubSeq(s, 1, Len(prefix)) = prefix

\* [ok, val: Vec<LookupPathEntry>]
dwp_string_to_context_entry(s, q) ==
    IF s = <<>> THEN Ok(<<>>)
    ELSE IF s[1] \in comment_chars THEN Ok(<<>>)
    ELSE IF s = Line_SxS THEN Ok(<<>>)
    ELSE IF s = Line_KnownDLLs
    THEN IF IsSome(q.system) /\ IsSome(q.system[1].known_dlls)
         THEN Ok(<<KnownDLLsEntry(q.system[1].known_dlls[1])>>)
         ELSE Ok(<<>>)
    ELSE IF s = Line_AppDir THEN Ok(<<DirEntry("ExecutableDir", q.target.app_dir)>>)
    ELSE IF s = Line_32BitSysDir
    THEN IF IsSome(q.system)
         THEN Ok(<<DirEntry("SystemDir", q.system[1].sys_dir)>>) ELSE Ok(<<>>)
    ELSE IF s = Line_16BitSysDir THEN Ok(<<>>)
    ELSE IF s = Line_OSDir
    THEN IF IsSome(q.system)
         THEN Ok(<<DirEntry("WindowsDir", q.system[1].win_dir)>>) ELSE Ok(<<>>)
    ELSE IF s = Line_AppPath THEN Ok(<<>>)
    ELSE IF s = Line_SysPath
    THEN IF IsSome(q.system) /\ IsSome(q.system[1].system_path)
         THEN LET path == q.system[1].system_path[1]
              IN  Ok([i \in 1..Len(path) |-> DirEntry("UserPath", path[i])])
         ELSE Ok(<<>>)
    ELSE IF starts_with(s, Prefix_UserDir)
    THEN Ok(<<DirEntry("UserPath", SubSeq(s, 9, Len(s)))>>)
    ELSE Err

\* the lines that are neither empty nor comments, in file order
dwp_lines(content) ==
    SelectSeq(content, LAMBDA s : ~(s = <<>> \/ s[1] \in comment_chars))

\* content: the lines of the file, None when it cannot be read;
\* [ok, val: the entries of the LookupPath]
from_dwp_file(content, q) ==
    IF ~IsSome(content) THEN Err
    ELSE LET lines == dwp_lines(content[1])
             entries_vecs ==
                 [i \in 1..Len(lines) |-> dwp_string_to_context_entry(lines[i], q)]
         IN  IF \E i \in 1..Len(lines) : ~entries_vecs[i].ok THEN Err
             ELSE Ok(concat([i \in 1..Len(lines) |-> entries_vecs[i].val]))

-----------------------------------------------------------------------------

(* Executables graph: src/src/executable.rs *)

Executable(n, d, fnd, det) ==
    [dllname |-> n, depth_first_appearance |-> d, found |-> fnd, details |-> det]

ExecutableDetails(api, sys, p, deps, syms) ==
    [is_api_set |-> api, is_system |-> sys, is_known_dll |-> FALSE,
     full_path |-> p, dependencies |-> deps, symbols |-> syms]

\* mutant: the name is looked up as it is spelled
get_exact(index, dllname) ==
    IF dllname \in DOMAIN index THEN Some(index[dllname]) ELSE None

get(index, dllname) ==
    IF to_lowercase(dllname) \in DOMAIN index
    THEN Some(index[to_lowercase(dllname)]) ELSE None

contains(index, dllname) == to_lowercase(dllname) \in DOMAIN index

\* mutant: a later record replaces the earlier one
insert_overwrite(index, new_exe) ==
    [k \in DOMAIN index \cup {to_lowercase(new_exe.dllname)} |->
        IF k = to_lowercase(new_exe.dllname) THEN new_exe ELSE index[k]]

insert(index, new_exe) ==
    IF IsSome(get(index, new_exe.dllname)) THEN index
    ELSE index @@ (to_lowercase(new_exe.dllname) :> new_exe)

\* mutant: with several candidates, one of them is returned
get_root_any(index) ==
    IF DOMAIN index = {} THEN Ok(None)
    ELSE LET root_candidates ==
                 {k \in DOMAIN index : index[k].depth_first_appearance = 0}
         IN  IF root_candidates = {} THEN Err
             ELSE Ok(Some(index[CHOOSE k \in root_candidates : TRUE]))

\* [ok, val: Option<Executable>]
get_root(index) ==
    IF DOMAIN index = {} THEN Ok(None)
    ELSE LET root_candidates ==
                 {k \in DOMAIN index : index[k].depth_first_appearance = 0}
         IN  IF root_candidates = {} THEN Err
             ELSE IF Cardinality(root_candidates) > 1 THEN Err
             ELSE Ok(Some(index[CHOOSE k \in root_candidates : TRUE]))

\* the concatenation of the sequences of vs, in order
RECURSIVE flatten(_)
flatten(vs) == IF vs = <<>> THEN <<>> ELSE Head(vs) \o flatten(Tail(vs))

\* callers: the records of the calls that are on the stack. The function
\* keeps no set of visited records: called again for a record of callers it
\* recurses without end, and the stack of the process overflows.
\* Returns [overflow, val: Vec<Executable>].
RECURSIVE get_notfound_children(_, _, _)
get_notfound_children(index, e, callers) ==
    IF e \in callers THEN [overflow |-> TRUE, val |-> <<>>]
    ELSE IF ~e.found THEN [overflow |-> FALSE, val |-> <<e>>]
    ELSE IF IsSome(e.details) /\ IsSome(e.details[1].dependencies)
    THEN LET dependencies == e.details[1].dependencies[1]
             rs == [i \in 1..Len(dependencies) |->
                       IF IsSome(get(index, dependencies[i]))
                       THEN get_notfound_children(
                                index, get(index, dependencies[i])[1], callers \cup {e})
                       ELSE [overflow |-> FALSE, val |-> <<>>]]
             deps_with_notfound_children == flatten([i \in 1..Len(rs) |-> rs[i].val])
         IN  [overflow |-> \E i \in 1..Len(rs) : rs[i].overflow,
              val |-> IF deps_with_notfound_children # <<>>
                      THEN Append(deps_with_notfound_children, e)
                      ELSE deps_with_notfound_children]
    ELSE [overflow |-> FALSE, val |-> <<>>]

\* for e in v { ret.insert(e) }
RECURSIVE insert_all(_, _)
insert_all(ret, v) ==
    IF v = <<>> THEN ret ELSE insert_all(insert(ret, Head(v)), Tail(v))

\* mutant: the last record of the list, the root, is not inserted
filter_only_notfound_rootless(index) ==
    LET root == get_root(index)
    IN  IF ~root.ok THEN [what |-> "err"]
        ELSE IF ~IsSome(root.val) THEN [what |-> "ok", graph |-> << >>]
        ELSE LET r == get_notfound_children(index, root.val[1], {})
             IN  IF r.overflow THEN [what |-> "overflow"]
                 ELSE [what |-> "ok",
                       graph |-> insert_all(<< >>, SubSeq(r.val, 1, Len(r.val) - 1))]

\* [what: "ok" with the graph returned, "err" (get_root failed),
\*  "overflow" (the recursion never returns)]
filter_only_notfound(index) ==
    LET root == get_root(index)
    IN  IF ~root.ok THEN [what |-> "err"]
        ELSE IF ~IsSome(root.val) THEN [what |-> "ok", graph |-> << >>]
        ELSE LET r == get_notfound_children(index, root.val[1], {})
             IN  IF r.overflow THEN [what |-> "overflow"]
                 ELSE [what |-> "ok", graph |-> insert_all(<< >>, r.val)]

\* the orders in which a HashMap may hand out the elements of S
Perms(S) ==
    {f \in [1..Cardinality(S) -> S] : \A i, j \in 1..Cardinality(S) : f[i] = f[j] => i = j}

\* one step of a stable sort: e goes behind every element that is not deeper
RECURSIVE insert_sorted(_, _)
insert_sorted(sorted, e) ==
    IF sorted = <<>> THEN <<e>>
    ELSE IF Head(sorted).depth_first_appearance <= e.depth_first_appearance
         THEN <<Head(sorted)>> \o insert_sorted(Tail(sorted), e)
         ELSE <<e>> \o sorted

\* Vec::sort_by(|e1, e2| e1.depth_first_appearance.cmp(&e2.depth_first_appearance))
RECURSIVE sort_by_depth(_)
sort_by_depth(v) ==
    IF v = <<>> THEN <<>>
    ELSE insert_sorted(sort_by_depth(SubSeq(v, 1, Len(v) - 1)), v[Len(v)])

\* mutant: the records are returned in the order of the map
sorted_by_first_appearance_unsorted(index, order) ==
    [i \in 1..Len(order) |-> index[order[i]]]

\* order: the order in which index.values() hands out the records
sorted_by_first_appearance(index, order) ==
    sort_by_depth([i \in 1..Len(order) |-> index[order[i]]])

-----------------------------------------------------------------------------
\* ExecutablesCheckReport (executable.rs 53-83)
\* not_found_libraries: importer -> set of names;
\* not_found_symbols: Option<importer -> exporter -> set of symbols>
ExecutablesCheckReport_new ==
    [not_found_libraries |-> <<>>, not_found_symbols |-> None]

\* HashMap::extend replaces the value of a key that is already present
extend(self, other) ==
    [not_found_libraries |-> other.not_found_libraries @@ self.not_found_libraries,
     not_found_symbols |->
        IF IsSome(other.not_found_symbols)
        THEN IF IsSome(self.not_found_symbols)
             THEN Some(other.not_found_symbols[1] @@ self.not_found_symbols[1])
             ELSE other.not_found_symbols
        ELSE self.not_found_symbols]

\* the symbols of a record, when it has details and symbols
symbols_of_record(o) ==
    IF IsSome(o) /\ IsSome(o[1].details) THEN o[1].details[1].symbols ELSE None

\* [ok, val: ExecutablesCheckReport]
check_symbols(index, importer, exporter) ==
    LET imp == symbols_of_record(get(index, importer))
        exp == symbols_of_record(get(index, exporter))
    IN  IF ~IsSome(imp) THEN Err
        ELSE IF exporter \notin DOMAIN imp[1].imported THEN Err
        ELSE IF ~IsSome(exp) THEN Err
        ELSE LET missing_symbols ==
                     {d \in imp[1].imported[exporter] : d \notin exp[1].exported}
             IN  Ok([not_found_libraries |-> <<>>,
                     not_found_symbols |->
                        IF missing_symbols = {} THEN None
                        ELSE Some(importer :> (exporter :> missing_symbols))])

\* the entry(name).or_default().insert(dll_name) of check_imports
insert_not_found_library(report, name, dll_name) ==
    [report EXCEPT !.not_found_libraries =
        (name :> ((IF name \in DOMAIN @ THEN @[name] ELSE {}) \cup {dll_name})) @@ @]

\* the loop of check_imports over imported_symbols.keys(), taken in the order
\* keys; [ok, val: ExecutablesCheckReport]
RECURSIVE check_imports_keys(_, _, _, _)
check_imports_keys(index, name, keys, missing_imports) ==
    IF keys = <<>> THEN Ok(missing_imports)
    ELSE LET dll_name == Head(keys)
             dll_exe == get(index, dll_name)
         IN  IF ~IsSome(dll_exe)
             THEN check_imports_keys(index, name, Tail(keys), missing_imports)
             ELSE IF dll_exe[1].found
             THEN IF ~(IF IsSome(dll_exe[1].details)
                       THEN dll_exe[1].details[1].is_system ELSE TRUE)
                  THEN LET res == check_symbols(index, name, dll_name)
                       IN  IF ~res.ok THEN Err
                           ELSE check_imports_keys(index, name, Tail(keys),
                                                   extend(missing_imports, res.val))
                  ELSE check_imports_keys(index, name, Tail(keys), missing_imports)
             ELSE check_imports_keys(index, name, Tail(keys),
                      insert_not_found_library(missing_imports, name, dll_name))

\* the elements of order that are in S, in the order of order
RECURSIVE keys_in_order(_, _)
keys_in_order(S, order) ==
    IF order = <<>> THEN <<>>
    ELSE IF Head(order) \in S THEN <<Head(order)>> \o keys_in_order(S, Tail(order))
    ELSE keys_in_order(S, Tail(order))

\* order: the iteration order of the hash maps; [ok, val: ExecutablesCheckReport]
check_imports(index, name, order) ==
    LET exe == get(index, name)
    IN  IF ~IsSome(exe) THEN Err
        ELSE IF (IF IsSome(exe[1].details) THEN exe[1].details[1].is_api_set ELSE TRUE)
        THEN Ok(ExecutablesCheckReport_new)
        ELSE IF ~IsSome(exe[1].details[1].symbols) THEN Err
        ELSE check_imports_keys(index, name,
                 keys_in_order(DOMAIN exe[1].details[1].symbols[1].imported, order),
                 ExecutablesCheckReport_new)

\* the fold of check over index.values(), taken in the order values
RECURSIVE check_fold(_, _, _, _)
check_fold(index, values, order, r) ==
    IF values = <<>> THEN r
    ELSE LET pr == check_imports(index, index[Head(values)].dllname, order)
         IN  check_fold(index, Tail(values), order,
                        IF pr.ok THEN extend(r, pr.val) ELSE r)

\* Executables::check; val: ExecutablesCheckReport
check(index, extract_symbols, order) ==
    IF extract_symbols
    THEN extend(ExecutablesCheckReport_new,
                check_fold(index, keys_in_order(DOMAIN index, order), order,
                           ExecutablesCheckReport_new))
    ELSE ExecutablesCheckReport_new

-----------------------------------------------------------------------------
(* PE reader as used by the resolver: src/src/runner.rs 96-126 *)

\* pelite::FileMap::open: None when there is no such file
FileMap_open(p) ==
    LET m == {f \in files : f.dir = p.dir /\ to_lowercase(f.name) = to_lowercase(p.name)}
    IN  IF m = {} THEN None ELSE Some(CHOOSE f \in m : TRUE)

read_dll_name(f) == f.export

read_dependencies(f) == IF f.pe = "badimports" THEN Err ELSE Ok(f.imports)

read_symbols(f) ==
    IF f.pe = "badsymbols" THEN Err
    ELSE Ok([exported |-> f.exported, imported |-> f.imported])

-----------------------------------------------------------------------------
(* Resolver: src/src/runner.rs *)

\* via: the kind of the lookup-path entry that located the module whose
\* dependency list produced the job ("target" for the initial job); history
\* only, never read by the resolver.
Job(n, d, via) == [dllname |-> n, depth |-> d, via |-> via]

enqueue(queue, index, executable_name, depth, via) ==
    IF ~contains(index, executable_name)
    THEN Append(queue, Job(executable_name, depth, via))
    ELSE queue

\* for d in deps { self.enqueue(&d, depth) }
RECURSIVE enqueue_all(_, _, _, _, _)
enqueue_all(queue, index, deps, depth, via) ==
    IF deps = <<>> THEN queue
    ELSE enqueue_all(enqueue(queue, index, Head(deps), depth, via),
                     index, Tail(deps), depth, via)

\* mutant: a finding is registered only while the graph is empty
register_finding_first(index, new_finding) ==
    IF DOMAIN index # {} THEN index ELSE insert(index, new_finding)

\* mutant: a later finding replaces the record of the same name
register_finding_replacing(index, new_finding) ==
    [k \in DOMAIN index \cup {to_lowercase(new_finding.dllname)} |->
        IF k = to_lowercase(new_finding.dllname) THEN new_finding ELSE index[k]]

register_finding(index, new_finding) ==
    IF IsSome(get(index, new_finding.dllname)) THEN index
    ELSE insert(index, new_finding)

\* self.context.apiset_map
context_apiset_map ==
    IF IsSome(query.system) THEN query.system[1].apiset_map ELSE None

\* mutant: only the KnownDLLs are spared
skips_dependencies_known_only(location) == location.kind = "KnownDLLs"

\* runner.rs 112: the modules whose import table is not read
skips_dependencies(location) == is_system(location) /\ location.kind # "ApiSet"

\* runner.rs 105-118; [ok, val: Option<Vec<String>>]
dependencies_of(f, dllname, location) ==
    IF location.kind = "ApiSet"
    THEN Ok(IF IsSome(context_apiset_map)
               /\ trim_end_matches_dll(dllname) \in DOMAIN context_apiset_map[1]
            THEN Some(context_apiset_map[1][trim_end_matches_dll(dllname)])
            ELSE None)
    ELSE IF skips_dependencies(location)
         THEN Ok(None)
         ELSE LET d == read_dependencies(f)
              IN  IF d.ok THEN Ok(Some(d.val)) ELSE Err

\* runner.rs 119-126; [ok, val: Option<ExecutableSymbols>]
symbols_of(f, location) ==
    IF location.kind # "ApiSet" /\ query.parameters.extract_symbols
    THEN LET s == read_symbols(f)
         IN  IF s.ok THEN Ok(Some(s.val)) ELSE Err
    ELSE Ok(None)

\* mutant: the dependencies are enqueued at the depth of their importer
next_depth_same(d) == d

\* lookup_query.depth + 1 in a build without overflow checks (release profile)
next_depth(d) == (d + 1) % (UsizeMax + 1)

\* mutant: the depth test is off by one
within_max_depth_off(depth) ==
    depth <= UnwrapOr(query.parameters.max_depth, UsizeMax) + 1

\* runner.rs 86: the depth test of the loop
within_max_depth(depth) == depth <= UnwrapOr(query.parameters.max_depth, UsizeMax)

\* mutant: the record of a missing name is put at the depth of the target
not_found_at_root(job) == Executable(job.dllname, 0, FALSE, None)

\* mutant: the record of a missing name is flagged found
not_found_flagged(job) == Executable(job.dllname, job.depth, TRUE, None)

\* runner.rs 147-152: the record of a name that search_dll did not find
not_found(job) == Executable(job.dllname, job.depth, FALSE, None)

\* One pass through the body of the while loop for the popped job.
\* what: "discard" (over max_depth), "known" (already in the graph),
\*       "found", "notfound", "error" (the ? operator returns from run)
Process(job) ==
    IF ~within_max_depth(job.depth)
    THEN [what |-> "discard", cache |-> fs_cache]
    ELSE IF contains(executables_found, job.dllname)
    THEN [what |-> "known", cache |-> fs_cache]
    ELSE
      LET s == search_dll(entries, job.dllname, fs_cache)
          r == IF s.ok THEN s.val ELSE None     \* .unwrap_or(None)
      IN
      IF ~IsSome(r)
      THEN [what |-> "notfound", cache |-> s.cache,
            exe |-> not_found(job)]
      ELSE
        LET fm == FileMap_open(r[1].fullpath) IN
        IF ~IsSome(fm) \/ fm[1].pe = "bad"
        THEN [what |-> "error", cache |-> s.cache]
        ELSE
          LET f == fm[1]
              dllname == UnwrapOr(read_dll_name(f), job.dllname)
              deps == dependencies_of(f, dllname, r[1].location)
              syms == symbols_of(f, r[1].location)
          IN
          IF ~deps.ok \/ ~syms.ok
          THEN [what |-> "error", cache |-> s.cache]
          ELSE [what |-> "found", cache |-> s.cache,
                location |-> r[1].location,
                deps |-> deps.val,
                exe |-> Executable(dllname, job.depth, TRUE,
                          Some(ExecutableDetails(
                                 r[1].location.kind = "ApiSet",
                                 is_system(r[1].location),
                                 r[1].fullpath, deps.val, syms.val)))]

Top == executables_to_lookup[Len(executables_to_lookup)]
Rest == SubSeq(executables_to_lookup, 1, Len(executables_to_lookup) - 1)

\* the entries that `after` holds on top of `before`
Pushed(before, after) ==
    {[dllname |-> after[i].dllname, depth |-> after[i].depth] :
        i \in (Len(before) + 1)..Len(after)}

\* the addition lookup_query.depth + 1 overflows
Overflows(job, p) ==
    /\ p.what = "found"
    /\ IsSome(p.deps) /\ p.deps[1] # <<>>
    /\ job.depth = UsizeMax

\* run, lines 72-83: take the file name of the target and enqueue it
Start ==
    /\ pc = "new"
    /\ IF IsSome(query.target.target_exe)
       THEN /\ executables_to_lookup' =
                   enqueue(executables_to_lookup, executables_found,
                           query.target.target_exe[1], 0, "target")
            /\ pc' = "loop"
       ELSE /\ pc' = "error"
            /\ UNCHANGED executables_to_lookup
    /\ enqueued' = enqueued \cup Pushed(executables_to_lookup, executables_to_lookup')
    /\ UNCHANGED <<query, files, dirs, overflow_checks, entries, fs_cache,
                   executables_found, looked, discarded, probe>>

\* run, lines 85-155: one iteration of the while loop
Step ==
    /\ pc = "loop"
    /\ executables_to_lookup # <<>>
    /\ \E job \in {Top} : \E p \in {Process(job)} :
           /\ ~(overflow_checks /\ Overflows(job, p))
           /\ fs_cache' = p.cache
           /\ looked' = IF p.what \in {"discard", "known"} THEN looked
                        ELSE looked \cup {[dllname |-> job.dllname, depth |-> job.depth]}
           /\ discarded' = IF p.what = "discard"
                           THEN discarded \cup {[dllname |-> job.dllname, depth |-> job.depth]}
                           ELSE discarded
           /\ CASE p.what = "found" ->
                     /\ executables_to_lookup' =
                            IF IsSome(p.deps)
                            THEN enqueue_all(Rest, executables_found, p.deps[1],
                                             next_depth(job.depth), p.location.kind)
                            ELSE Rest
                     /\ executables_found' = register_finding(executables_found, p.exe)
                     /\ pc' = pc
                [] p.what = "notfound" ->
                     /\ executables_to_lookup' = Rest
                     /\ executables_found' = register_finding(executables_found, p.exe)
                     /\ pc' = pc
                [] p.what = "error" ->
                     /\ executables_to_lookup' = Rest
                     /\ executables_found' = executables_found
                     /\ pc' = "error"
                [] OTHER ->
                     /\ executables_to_lookup' = Rest
                     /\ executables_found' = executables_found
                     /\ pc' = pc
    /\ enqueued' = enqueued \cup Pushed(Rest, executables_to_lookup')
    /\ UNCHANGED <<query, files, dirs, overflow_checks, entries, probe>>

\* run, line 130 in a build with overflow checks: depth + 1 panics
Panic ==
    /\ pc = "loop"
    /\ executables_to_lookup # <<>>
    /\ \E job \in {Top} : \E p \in {Process(job)} :
           /\ overflow_checks /\ Overflows(job, p)
           /\ fs_cache' = p.cache
           /\ looked' = looked \cup {[dllname |-> job.dllname, depth |-> job.depth]}
    /\ pc' = "panic"
    /\ executables_to_lookup' = Rest
    /\ UNCHANGED <<query, files, dirs, overflow_checks, entries, executables_found,
                   discarded, enqueued, probe>>

\* run, line 157: the queue is drained
Return ==
    /\ pc = "loop"
    /\ executables_to_lookup = <<>>
    /\ pc' = "done"
    /\ UNCHANGED <<query, files, dirs, overflow_checks, entries, fs_cache,
                   executables_to_lookup, executables_found, looked, discarded,
                   enqueued, probe>>

-----------------------------------------------------------------------------
(* The worlds the resolver is run in *)

File(d, n, ex, im, pe) ==
    [dir |-> d, name |-> n, export |-> ex, imports |-> im, pe |-> pe,
     exported |-> {}, imported |-> <<>>]

AppExe == Nm("app", "mixed", "exe")
LibDll == Nm("lib", "mixed", "dll")
DepDll == Nm("dep", "mixed", "dll")
KrnDll == Nm("krn", "mixed", "dll")
ApiDll == Nm("api", "lower", "dll")
CoreDll == Nm("core", "mixed", "dll")
NtDll == Nm("ntd", "lower", "dll")

lib == Nm("lib", "lower", "dll")
dep == Nm("dep", "lower", "dll")
krn == Nm("krn", "lower", "dll")
api == Nm("api", "lower", "dll")
API == Nm("api", "upper", "dll")
KRN == Nm("krn", "upper", "dll")
LIB == Nm("lib", "upper", "dll")

\* sequences over S of length at most n
RECURSIVE SeqsUpTo(_, _)
SeqsUpTo(S, n) ==
    IF n = 0 THEN {<<>>}
    ELSE LET shorter == SeqsUpTo(S, n - 1)
         IN  shorter \cup {Append(q, x) : q \in shorter, x \in S}

\* the API-Set map of system.rs: lowercased base name -> host names
ApisetMap == (Nm("api", "lower", "") :> <<krn>>)

\* KnownDLLList.entries as built by WindowsSystem::current (system.rs 78-83)
KnownDLLList == (to_lowercase(KrnDll) :> Path(SysDir, KrnDll))

WindowsSystem(safe, am, kd, sp) ==
    [safe_dll_search_mode_on |-> safe, apiset_map |-> am, known_dlls |-> kd,
     win_dir |-> WinDir, sys_dir |-> SysDir, system_path |-> sp]

LookupQuery(system, exe, up, md, sym) ==
    [system |-> system,
     target |-> [target_exe |-> exe, app_dir |-> AppDir,
                 working_dir |-> WorkDir, user_path |-> up],
     parameters |-> [max_depth |-> md, skip_system_dlls |-> FALSE,
                     extract_symbols |-> sym]]

\* the files of the Windows installation
SystemFiles ==
    {File(SysDir, krn, Some(KRN), <<NtDll>>, "ok"),
     File(DownDir, ApiDll, None, <<dep>>, "ok")}

RunSystems ==
    {None,
     Some(WindowsSystem(None, None, None, None)),
     Some(WindowsSystem(None, Some(ApisetMap), Some(KnownDLLList), None))}

\* the import table of the target: modules of the application and of the
\* system in every order, or one API-set name in either case
AppImports == SeqsUpTo({lib, dep, krn}, MaxDeps) \cup {<<api>>, <<API>>}

LibFiles ==
    {File(AppDir, LibDll, ex, im, "ok") :
        ex \in {None, Some(CoreDll)},
        im \in {<<>>, <<lib>>, <<dep>>, <<krn>>}}

DepFiles ==
    {File(AppDir, DepDll, None, im, "ok") : im \in {<<>>, <<lib>>, <<AppExe>>}}
    \cup {File(AppDir, DepDll, None, <<lib>>, pe) :
            pe \in {"bad", "badimports", "badsymbols"}}

MaxDepths == {None} \cup {Some(k) : k \in 1..MaxDepthCap}

\* the directories of a run
RunDirs == {AppDir, WorkDir, WinDir, SysDir, DownDir}

EmptyIndex == [k \in {} |-> k]
NoProbe == [library |-> None]

InitRunner ==
    /\ fs_cache = EmptyIndex
    /\ executables_to_lookup = <<>>
    /\ executables_found = EmptyIndex
    /\ pc = "new"
    /\ overflow_checks \in BOOLEAN
    /\ looked = {}
    /\ discarded = {}
    /\ enqueued = {}
    /\ probe = NoProbe

Init ==
    /\ \/ /\ dirs = RunDirs
          /\ \E system \in RunSystems, md \in MaxDepths, sym \in BOOLEAN :
               query = LookupQuery(system, Some(AppExe), <<>>, md, sym)
          /\ \E ia \in AppImports, fl \in SUBSET LibFiles, fd \in DepFiles :
               /\ Cardinality(fl) <= 1
               /\ files = {File(AppDir, AppExe, None, ia, "ok"), fd}
                            \cup fl \cup SystemFiles
       \/ \* the working directory does not exist
          /\ dirs = RunDirs \ {WorkDir}
          /\ \E system \in RunSystems :
               query = LookupQuery(system, Some(AppExe), <<>>, None, FALSE)
          /\ \E ia \in AppImports, fl \in SUBSET LibFiles, fd \in DepFiles :
               /\ Cardinality(fl) <= 1
               /\ files = {File(AppDir, AppExe, None, ia, "ok"), fd}
                            \cup fl \cup SystemFiles
       \/ /\ dirs = RunDirs
          /\ query = LookupQuery(None, None, <<>>, None, FALSE)
          /\ files = {File(AppDir, AppExe, None, <<>>, "ok")}
       \/ \* the caller asks to skip the dependencies of system DLLs
          /\ dirs = RunDirs
          /\ \E system \in RunSystems \ {None} :
               query = [LookupQuery(system, Some(AppExe), <<>>, None, FALSE)
                           EXCEPT !.parameters.skip_system_dlls = TRUE]
          /\ \E ia \in {<<krn>>, <<lib, krn>>}, fl \in LibFiles :
               files = {File(AppDir, AppExe, None, ia, "ok"), fl} \cup SystemFiles
    /\ entries = deduce(query)
    /\ InitRunner

\* the caller of run filters the graph it got (deprun.rs 500-505)
FilterOnlyNotfound ==
    /\ pc = "done"
    /\ probe' = [library |-> None, op |-> "filter",
                 result |-> filter_only_notfound(executables_found)]
    /\ UNCHANGED <<query, files, dirs, overflow_checks, entries, fs_cache,
                   executables_to_lookup, executables_found, pc, looked, discarded,
                   enqueued>>

Next == Start \/ Step \/ Panic \/ Return \/ FilterOnlyNotfound

-----------------------------------------------------------------------------
(* The worlds search_dll is called in directly *)

UserPaths == {[i \in 1..n |-> UserDir(i)] : n \in 0..MaxPath}
SystemPaths == {None} \cup {Some([i \in 1..n |-> PathDir(i)]) : n \in 0..MaxPath}

LookupSystems ==
    {WindowsSystem(safe, am, kd, sp) :
        safe \in {None, Some(TRUE), Some(FALSE)},
        am \in {None, Some(ApisetMap)},
        kd \in {None, Some(KnownDLLList)},
        sp \in SystemPaths}

PathDirs == {PathDir(i) : i \in 1..MaxPath} \cup {UserDir(i) : i \in 2..MaxPath}
BaseDirs == {AppDir, WorkDir, WinDir, SysDir} \cup PathDirs

\* a copy of name n in each directory of D
Copies(n, D) == {File(d, n, None, <<>>, "ok") : d \in D}

ProbeNames == {krn, KRN, api, API, lib, LIB}

InitLookup ==
    /\ \/ \* every shape of the lookup path, over one file system
          /\ \E system \in {None} \cup {Some(w) : w \in LookupSystems},
                up \in UserPaths :
                query = LookupQuery(system, Some(AppExe), up, None, FALSE)
          /\ dirs = BaseDirs \cup {DownDir, UserDir(1)}
          /\ files = SystemFiles \cup Copies(LibDll, {WorkDir, SysDir})
       \/ \* every placement of the files, over three lookup paths
          /\ \E system \in {None,
                             Some(WindowsSystem(None, Some(ApisetMap),
                                    Some(KnownDLLList), Some(<<PathDir(1)>>))),
                             Some(WindowsSystem(Some(FALSE), Some(ApisetMap),
                                    Some(KnownDLLList), Some(<<PathDir(1)>>)))} :
                query = LookupQuery(system, Some(AppExe),
                                    <<UserDir(1), UserDir(2)>>, None, FALSE)
          /\ \E down \in SUBSET {DownDir}, user1 \in SUBSET {UserDir(1)} :
                dirs = BaseDirs \cup down \cup user1
          /\ \E L \in SUBSET ({WorkDir, SysDir, UserDir(2)} \cup (dirs \cap {UserDir(1)})),
                K \in SUBSET {AppDir},
                A \in SUBSET ({AppDir} \cup (dirs \cap {DownDir})) :
                files = {File(SysDir, krn, Some(KRN), <<NtDll>>, "ok")}
                          \cup Copies(LibDll, L) \cup Copies(krn, K) \cup Copies(ApiDll, A)
    /\ entries = deduce(query)
    /\ fs_cache = EmptyIndex
    /\ executables_to_lookup = <<>>
    /\ executables_found = EmptyIndex
    /\ pc = "lookup"
    /\ overflow_checks = FALSE
    /\ looked = {}
    /\ discarded = {}
    /\ enqueued = {}
    /\ probe = NoProbe

\* a caller looks a name up through the lookup path
Probe(n) ==
    /\ pc = "lookup"
    /\ \E s \in {search_dll(entries, n, fs_cache)} :
          /\ fs_cache' = s.cache
          /\ probe' = [library |-> Some(n), result |-> [ok |-> s.ok, val |-> s.val]]
    /\ UNCHANGED <<query, files, dirs, overflow_checks, entries,
                   executables_to_lookup, executables_found, pc, looked, discarded,
                   enqueued>>

NextLookup == \E n \in ProbeNames : Probe(n)

SpecLookup == InitLookup /\ [][NextLookup]_vars

-----------------------------------------------------------------------------
(* The graph used on its own: records inserted and read back by a caller *)

GraphNames == {lib, LibDll, LIB, dep, DepDll, AppExe}

GraphRecords ==
    {Executable(n, d, FALSE, None) : n \in GraphNames, d \in 0..MaxGraphDepth}
    \cup {Executable(n, d, TRUE,
                     Some(ExecutableDetails(FALSE, FALSE, Path(AppDir, n), None, None))) :
            n \in GraphNames, d \in 0..MaxGraphDepth}

InitGraph ==
    /\ query = LookupQuery(None, None, <<>>, None, FALSE)
    /\ files = {}
    /\ dirs = {}
    /\ entries = <<>>
    /\ fs_cache = EmptyIndex
    /\ executables_to_lookup = <<>>
    /\ executables_found = EmptyIndex
    /\ pc = "graph"
    /\ overflow_checks = FALSE
    /\ looked = {}
    /\ discarded = {}
    /\ enqueued = {}
    /\ probe = NoProbe

\* Executables::insert
Insert(e) ==
    /\ pc = "graph"
    /\ executables_found' = insert(executables_found, e)
    /\ probe' = [library |-> None, op |-> "insert", arg |-> e]
    /\ UNCHANGED <<query, files, dirs, overflow_checks, entries, fs_cache,
                   executables_to_lookup, pc, looked, discarded, enqueued>>

\* Executables::contains and Executables::get
Get(n) ==
    /\ pc = "graph"
    /\ probe' = [library |-> None, op |-> "get", arg |-> n,
                 contains |-> contains(executables_found, n),
                 get |-> get(executables_found, n)]
    /\ UNCHANGED <<query, files, dirs, overflow_checks, entries, fs_cache,
                   executables_to_lookup, executables_found, pc, looked, discarded,
                   enqueued>>

\* Executables::get_root
GetRoot ==
    /\ pc = "graph"
    /\ probe' = [library |-> None, op |-> "get_root",
                 result |-> get_root(executables_found)]
    /\ UNCHANGED <<query, files, dirs, overflow_checks, entries, fs_cache,
                   executables_to_lookup, executables_found, pc, looked, discarded,
                   enqueued>>

\* Executables::sorted_by_first_appearance
SortedByFirstAppearance ==
    /\ pc = "graph"
    /\ \E order \in Perms(DOMAIN executables_found) :
          probe' = [library |-> None, op |-> "sorted",
                    result |-> sorted_by_first_appearance(executables_found, order)]
    /\ UNCHANGED <<query, files, dirs, overflow_checks, entries, fs_cache,
                   executables_to_lookup, executables_found, pc, looked, discarded,
                   enqueued>>

NextGraph ==
    \/ \E e \in GraphRecords : Insert(e)
    \/ \E n \in GraphNames : Get(n)
    \/ GetRoot
    \/ SortedByFirstAppearance

SpecGraph == InitGraph /\ [][NextGraph]_vars

-----------------------------------------------------------------------------
(* The graphs check is run on: the target and the modules it imports from *)

\* the name read_imports gives a symbol imported by ordinal (pe.rs 123-126)
OrdinalName == ""

ImportedSymbols == SUBSET {"A", "C", OrdinalName}
ExportedSymbols == SUBSET {"A", "B"}

\* the symbols field of a record built by the resolver (runner.rs 119-126)
CheckSymbols(sym, ex, im) ==
    IF sym THEN Some([exported |-> ex, imported |-> im]) ELSE None

\* the name in the export table of the file found for the import n
ExportName(n) == [n EXCEPT !.cs = "mixed"]

\* the records the resolver can leave for a dependency named n in an import table
ExporterRecords(n, sym) ==
    {Executable(n, 1, FALSE, None)}
    \cup {Executable(ExportName(n), 1, TRUE,
                     Some(ExecutableDetails(FALSE, TRUE, Path(SysDir, n), None,
                                            CheckSymbols(sym, {}, <<>>))))}
    \cup {Executable(ExportName(n), 1, TRUE,
                     Some(ExecutableDetails(FALSE, FALSE, Path(AppDir, n), Some(<<>>),
                                            CheckSymbols(sym, ex, <<>>)))) :
            ex \in IF sym THEN ExportedSymbols ELSE {{}}}

\* the record of the target, importing im[d] from each d of deps
ImporterRecord(deps, sym, im) ==
    Executable(AppExe, 0, TRUE,
               Some(ExecutableDetails(FALSE, FALSE, Path(AppDir, AppExe), Some(deps),
                                      CheckSymbols(sym, {}, im))))

CheckDeps == {<<lib>>, <<dep>>, <<lib, dep>>, <<dep, lib>>}

InitCheck ==
    /\ files = {}
    /\ dirs = {}
    /\ entries = <<>>
    /\ fs_cache = EmptyIndex
    /\ executables_to_lookup = <<>>
    /\ pc = "check"
    /\ overflow_checks = FALSE
    /\ looked = {}
    /\ discarded = {}
    /\ enqueued = {}
    /\ probe = NoProbe
    /\ \E sym \in BOOLEAN, deps \in CheckDeps :
          /\ query = LookupQuery(None, Some(AppExe), <<>>, None, sym)
          /\ \E im \in [{deps[i] : i \in 1..Len(deps)} ->
                            IF sym THEN ImportedSymbols ELSE {{}}] :
             \E rs \in [{deps[i] : i \in 1..Len(deps)} ->
                            UNION {ExporterRecords(n, sym) : n \in {lib, dep}}] :
                /\ \A n \in DOMAIN rs : rs[n] \in ExporterRecords(n, sym)
                /\ executables_found =
                      insert_all(insert(EmptyIndex, ImporterRecord(deps, sym, im)),
                                 [i \in 1..Len(deps) |-> rs[deps[i]]])

\* Executables::check as main calls it (bin/deprun.rs 559), the hash maps
\* iterated in some order
Check ==
    /\ pc = "check"
    /\ \E order \in Perms(DOMAIN executables_found) :
          probe' = [library |-> None, op |-> "check",
                    result |-> check(executables_found,
                                     query.parameters.extract_symbols, order)]
    /\ UNCHANGED <<query, files, dirs, overflow_checks, entries, fs_cache,
                   executables_to_lookup, executables_found, pc, looked, discarded,
                   enqueued>>

NextCheck == Check

SpecCheck == InitCheck /\ [][NextCheck]_vars

-----------------------------------------------------------------------------
(* The filesystem cache used on its own: directories probed by a caller *)

CacheDirs == {AppDir, WorkDir}

\* Lib.dll and LIB.DLL can lie in one directory of a case-sensitive file system
CacheFiles ==
    {File(d, n, None, <<>>, "ok") : d \in CacheDirs, n \in {LibDll, LIB, DepDll}}

CacheNames == {lib, LibDll, LIB, dep, krn}

InitCache ==
    /\ query = LookupQuery(None, None, <<>>, None, FALSE)
    /\ \E D \in SUBSET CacheDirs :
          /\ dirs = D
          /\ \E F \in SUBSET CacheFiles :
                /\ \A f \in F : f.dir \in D
                /\ files = F
    /\ entries = <<>>
    /\ fs_cache = EmptyIndex
    /\ executables_to_lookup = <<>>
    /\ executables_found = EmptyIndex
    /\ pc = "cache"
    /\ overflow_checks = FALSE
    /\ looked = {}
    /\ discarded = {}
    /\ enqueued = {}
    /\ probe = [library |-> None, op |-> "new", read_dirs |-> [d \in CacheDirs |-> 0]]

\* WinFileSystemCache::test_file_in_folder_case_insensitive; read_dirs counts
\* the calls of fs::read_dir on each folder
TestFile(filename, folder) ==
    /\ pc = "cache"
    /\ ~reads_dir(fs_cache, folder) \/ probe.read_dirs[folder] < MaxReadDirs
    /\ \E r \in {test_file_in_folder_case_insensitive(fs_cache, filename, folder)} :
          /\ fs_cache' = r.cache
          /\ probe' = [library |-> None, op |-> "test_file",
                       filename |-> filename, folder |-> folder,
                       ok |-> r.ok, val |-> r.val,
                       read_dirs |->
                          [probe.read_dirs EXCEPT
                              ![folder] = IF reads_dir(fs_cache, folder)
                                          THEN @ + 1 ELSE @]]
    /\ UNCHANGED <<query, files, dirs, overflow_checks, entries,
                   executables_to_lookup, executables_found, pc, looked, discarded,
                   enqueued>>

NextCache == \E filename \in CacheNames, folder \in CacheDirs : TestFile(filename, folder)

SpecCache == InitCache /\ [][NextCache]_vars

-----------------------------------------------------------------------------
(* Lookup paths built from a .dwp file *)

\* a line with a trailing blank, and a line of an unknown key
Line_AppDirBlank == Line_AppDir \o <<" ">>
Line_Unknown == <<"B", "o", "g", "u", "s">>

DwpLines ==
    {<<>>, <<"#", "c">>, <<";">>, Line_SxS, Line_KnownDLLs, Line_AppDir,
     Line_32BitSysDir, Line_16BitSysDir, Line_OSDir, Line_AppPath, Line_SysPath,
     Prefix_UserDir \o UserDir(1), Line_AppDirBlank, Line_Unknown}

DwpFiles == {None} \cup {Some(c) : c \in SeqsUpTo(DwpLines, MaxLines)}

InitDwp ==
    /\ \E system \in {None} \cup {Some(w) : w \in LookupSystems} :
          query = LookupQuery(system, Some(AppExe), <<>>, None, FALSE)
    /\ files = {}
    /\ dirs = {}
    /\ entries = <<>>
    /\ fs_cache = EmptyIndex
    /\ executables_to_lookup = <<>>
    /\ executables_found = EmptyIndex
    /\ pc = "dwp"
    /\ overflow_checks = FALSE
    /\ looked = {}
    /\ discarded = {}
    /\ enqueued = {}
    /\ probe = NoProbe

\* LookupPath::from_dwp_file, the constructor: on success the entries and an
\* empty cache
FromDwpFile(content) ==
    /\ pc = "dwp"
    /\ \E r \in {from_dwp_file(content, query)} :
          /\ entries' = IF r.ok THEN r.val ELSE entries
          /\ probe' = [library |-> None, op |-> "from_dwp_file",
                       content |-> content, result |-> r]
    /\ fs_cache' = EmptyIndex
    /\ pc' = "path"
    /\ UNCHANGED <<query, files, dirs, overflow_checks, executables_to_lookup,
                   executables_found, looked, discarded, enqueued>>

NextDwp == \E content \in DwpFiles : FromDwpFile(content)

SpecDwp == InitDwp /\ [][NextDwp]_vars

Spec == Init /\ [][Next]_vars

\* Worlds without a Windows installation, for the termination of the loop
InitUser ==
    /\ dirs = {AppDir, WorkDir}
    /\ \E md \in MaxDepths :
          query = LookupQuery(None, Some(AppExe), <<>>, md, FALSE)
    /\ \E ia \in SeqsUpTo({lib, dep}, MaxDeps), fl \in LibFiles,
          im \in {<<>>, <<lib>>} :
          /\ fl.imports \in {<<>>, <<lib>>, <<dep>>}
          /\ files = {File(AppDir, AppExe, None, ia, "ok"), fl,
                      File(AppDir, DepDll, None, im, "ok")}
    /\ entries = deduce(query)
    /\ InitRunner

\* the loop of run is a plain sequential loop: it always takes its next step
FairSpec == InitUser /\ [][Next]_vars /\ WF_vars(Next)

-----------------------------------------------------------------------------
(* Claims about the resolver *)

\* C1: run terminates: for every set of module files and every dependency
\* relation among them, run eventually drains its queue and returns.
C1_RunReturns == <>(pc \in {"done", "error"})


Records == {executables_found[k] : k \in DOMAIN executables_found}
FoundRecords == {e \in Records : e.found}
MaxDepth == UnwrapOr(query.parameters.max_depth, UsizeMax)
Range(q) == {q[i] : i \in 1..Len(q)}

\* the names listed in the dependencies of the record of name n
DepsOf(n) ==
    IF contains(executables_found, n)
       /\ executables_found[to_lowercase(n)].found
       /\ IsSome(executables_found[to_lowercase(n)].details[1].dependencies)
    THEN Range(executables_found[to_lowercase(n)].details[1].dependencies[1])
    ELSE {}

\* the lowercased names at most k dependency edges away from the target
RECURSIVE Within(_)
Within(k) ==
    IF k = 0 THEN {to_lowercase(query.target.target_exe[1])}
    ELSE Within(k - 1)
           \cup UNION {{to_lowercase(d) : d \in DepsOf(n)} : n \in Within(k - 1)}

\* C2: when run returns with max_depth unbounded, every name in a recorded
\* dependency list of a found record has a record of its own.
C2_DependenciesHaveRecords ==
    (pc = "done" /\ query.parameters.max_depth = None) =>
        \A e \in FoundRecords :
            IsSome(e.details[1].dependencies) =>
                \A d \in Range(e.details[1].dependencies[1]) :
                    contains(executables_found, d)

\* C3: when run returns with max_depth = k, every name within k dependency
\* edges of the target has a record, whatever the order of the import tables.
C3_ReachableWithinDepthPresent ==
    (pc = "done" /\ IsSome(query.parameters.max_depth)) =>
        \A n \in Within(query.parameters.max_depth[1]) :
            contains(executables_found, n)

\* C4: no record is deeper than max_depth; a queue entry deeper than
\* max_depth is dropped without a lookup and without a record, so that with
\* max_depth = 1 only the target and names it imports are looked up.
C4_DepthCap ==
    /\ \A e \in Records : e.depth_first_appearance <= MaxDepth
    /\ \A j \in looked : j.depth <= MaxDepth
    /\ \A j \in discarded : j.depth > MaxDepth /\ j \notin looked
    /\ \A e \in Records : \E j \in looked : j.depth = e.depth_first_appearance
    /\ query.parameters.max_depth = Some(1) =>
          \A j \in looked :
              \/ j.depth = 0 /\ j.dllname = query.target.target_exe[1]
              \/ j.depth = 1 /\ j.dllname \in DepsOf(query.target.target_exe[1])

\* a grandchild of the target was dropped by the depth test of max_depth = 1
C4_Witness ==
    /\ pc = "done"
    /\ query.parameters.max_depth = Some(1)
    /\ \E j \in discarded : j.depth = 2 /\ ~contains(executables_found, j.dllname)
    /\ \E e \in Records : e.depth_first_appearance = 1

\* C5: after a successful run the graph is not empty, exactly one record has
\* depth 0, it is the record of the target, and get_root returns it.
C5_SingleRoot ==
    pc = "done" =>
        /\ DOMAIN executables_found # {}
        /\ Cardinality({e \in Records : e.depth_first_appearance = 0}) = 1
        /\ get_root(executables_found).ok
        /\ IsSome(get_root(executables_found).val)
        /\ LET root == get_root(executables_found).val[1]
           IN  /\ root.depth_first_appearance = 0
               /\ [dllname |-> query.target.target_exe[1], depth |-> 0] \in looked
               /\ IF root.found
                  THEN to_lowercase(root.details[1].full_path.name)
                         = to_lowercase(query.target.target_exe[1])
                  ELSE root.dllname = query.target.target_exe[1]
               /\ \A e \in Records \ {root} : e.depth_first_appearance >= 1

\* a finished run whose graph holds the target and at least two more records
C5_Witness ==
    /\ pc = "done"
    /\ Cardinality(DOMAIN executables_found) >= 3
    /\ get_root(executables_found).ok
    /\ \E e \in FoundRecords : e.depth_first_appearance = 0

\* the lowercased module name without its .dll extension
BaseName(n) ==
    IF n.ext = "dll" THEN [stem |-> n.stem, cs |-> "lower", ext |-> ""]
    ELSE to_lowercase(n)

\* the probe of the last lookup
Probed == IsSome(probe.library)

\* the files a directory holds under a name, whatever the case
Holds(folder, n) ==
    {f \in files : f.dir = folder /\ to_lowercase(f.name) = to_lowercase(n)}

\* entry e matches name n under the semantics of its kind
Matches(e, n) ==
    CASE e.kind = "KnownDLLs" -> to_lowercase(n) \in DOMAIN e.table
      [] e.kind = "ApiSet" ->
           /\ BaseName(n) \in DOMAIN e.map
           /\ \E i \in 1..Len(entries) :
                /\ entries[i].kind = "SystemDir"
                /\ Holds(join(entries[i].path, "downlevel"), n) # {}
      [] OTHER -> Holds(e.path, n) # {}

\* the path entry e yields for name n
HitPath(e, n) ==
    CASE e.kind = "KnownDLLs" -> e.table[to_lowercase(n)]
      [] e.kind = "ApiSet" ->
           LET d == join(FindSystemDir(entries)[1].path, "downlevel")
           IN  Path(d, (CHOOSE f \in Holds(d, n) : TRUE).name)
      [] OTHER -> Path(e.path, (CHOOSE f \in Holds(e.path, n) : TRUE).name)

MatchingEntries(n) == {i \in 1..Len(entries) : Matches(entries[i], n)}

\* C6: search_dll returns the hit of the first entry of the list that
\* matches the name, and returns no result only when no entry matches: a file
\* of a later directory entry is found whenever all earlier entries miss.
C6_FirstMatchingEntryWins ==
    Probed =>
        LET n == probe.library[1]
            M == MatchingEntries(n)
        IN  IF M = {} THEN probe.result.val = None
            ELSE LET first == CHOOSE i \in M : \A j \in M : i <= j
                 IN  /\ probe.result.ok
                     /\ probe.result.val
                          = Some(LookupResult(entries[first],
                                              HitPath(entries[first], n)))

\* the UserPath entries of the query, in order
C7_UserPath ==
    [i \in 1..Len(query.target.user_path) |->
        [kind |-> "UserPath", path |-> query.target.user_path[i]]]

\* the SystemPath entries of the system descriptor, in order
C7_SystemPath ==
    LET sp == IF query.system[1].system_path = None THEN <<>>
              ELSE query.system[1].system_path[1]
    IN  [i \in 1..Len(sp) |-> [kind |-> "SystemPath", path |-> sp[i]]]

\* the tables of the system descriptor that are available
C7_Tables ==
    LET system == query.system[1]
    IN  (IF system.known_dlls = None THEN <<>>
         ELSE <<[kind |-> "KnownDLLs", table |-> system.known_dlls[1]]>>)
        \o (IF system.apiset_map = None THEN <<>>
            ELSE <<[kind |-> "ApiSet", map |-> system.apiset_map[1]]>>)

\* C7: the entries deduce builds are, in this order: with a system descriptor
\* and safe search on or unspecified, KnownDLLs (if a table is available),
\* ApiSet (if a map is available), ExecutableDir, SystemDir, WindowsDir,
\* WorkingDir, the SystemPath entries, the UserPath entries; with safe search
\* off the same with WorkingDir directly after ExecutableDir; without a system
\* descriptor ExecutableDir, WorkingDir and the UserPath entries.
C7_DeduceOrder ==
    LET exe == [kind |-> "ExecutableDir", path |-> query.target.app_dir]
        work == [kind |-> "WorkingDir", path |-> query.target.working_dir]
    IN  IF query.system = None
        THEN entries = <<exe, work>> \o C7_UserPath
        ELSE LET system == query.system[1]
                 sys == [kind |-> "SystemDir", path |-> system.sys_dir]
                 win == [kind |-> "WindowsDir", path |-> system.win_dir]
             IN  IF system.safe_dll_search_mode_on = Some(FALSE)
                 THEN entries = C7_Tables \o <<exe, work, sys, win>>
                                  \o C7_SystemPath \o C7_UserPath
                 ELSE entries = C7_Tables \o <<exe, sys, win, work>>
                                  \o C7_SystemPath \o C7_UserPath

\* C7 witness: a lookup path deduced with safe search off, both tables, and
\* at least two directories in the system PATH and in the user path
C7_Witness ==
    /\ pc = "lookup"
    /\ IsSome(query.system)
    /\ query.system[1].safe_dll_search_mode_on = Some(FALSE)
    /\ IsSome(query.system[1].known_dlls)
    /\ IsSome(query.system[1].apiset_map)
    /\ IsSome(query.system[1].system_path)
    /\ Len(query.system[1].system_path[1]) >= 2
    /\ Len(query.target.user_path) >= 2
    /\ Len(entries) >= 10
    /\ entries[4].kind = "WorkingDir"

\* C8: on a lookup path deduced with a KnownDLLs table, a name whose lowercased
\* form is in the table resolves to the table's path with location KnownDLLs,
\* whatever files the directories of the lookup path hold.
C8_KnownDLLNotOverridden ==
    (/\ Probed
     /\ IsSome(query.system)
     /\ IsSome(query.system[1].known_dlls)
     /\ to_lowercase(probe.library[1]) \in DOMAIN query.system[1].known_dlls[1])
    => LET kd == query.system[1].known_dlls[1]
       IN  /\ probe.result.ok
           /\ probe.result.val
                = Some([location |-> [kind |-> "KnownDLLs", table |-> kd],
                        fullpath |-> kd[to_lowercase(probe.library[1])]])

\* C8 witness: a KnownDLL probed under an upper-case name while a file of
\* that name sits in the executable directory, ahead of the system directory
C8_Witness ==
    /\ Probed
    /\ probe.library[1] = KRN
    /\ Holds(AppDir, KRN) # {}
    /\ entries[1].kind = "KnownDLLs"
    /\ probe.result.ok
    /\ IsSome(probe.result.val)
    /\ probe.result.val[1].location.kind = "KnownDLLs"

C10_ApiSetDependenciesFromMap ==
    \A e \in FoundRecords :
        e.details[1].is_api_set =>
            /\ IsSome(context_apiset_map)
            /\ BaseName(e.dllname) \in DOMAIN context_apiset_map[1]
            /\ e.details[1].dependencies
                 = Some(context_apiset_map[1][BaseName(e.dllname)])

-----------------------------------------------------------------------------
(* Claims about the failures of a lookup and about the records *)

\* the loop is about to look the top of the queue up
AboutToLook ==
    /\ pc = "loop"
    /\ executables_to_lookup # <<>>
    /\ Top.depth <= MaxDepth
    /\ to_lowercase(Top.dllname) \notin DOMAIN executables_found

\* the answer search_dll gives for the top of the queue
TopSearch == search_dll(entries, Top.dllname, fs_cache)

\* the graph with one more record, [name, depth, found = false, no details]
WithNotFound(name, depth) ==
    executables_found @@
        (to_lowercase(name) :>
            [dllname |-> name, depth_first_appearance |-> depth,
             found |-> FALSE, details |-> None])

\* C11: when search_dll finds no file for a dequeued name, run inserts a
\* record with that name, the depth of the queue entry, found = false and no
\* details, and goes on with the rest of the queue; the missing DLL is not an
\* error of the run.
C11_NotFoundIsRecorded ==
    [][(AboutToLook /\ TopSearch.ok /\ TopSearch.val = None) =>
          /\ executables_found' = WithNotFound(Top.dllname, Top.depth)
          /\ executables_to_lookup' = Rest
          /\ pc' = "loop"]_vars

\* C11 witness: run has returned a graph that holds a not-found record for a
\* name that no entry of the lookup path holds
C11_Witness ==
    /\ pc = "done"
    /\ \E e \in Records :
          /\ ~e.found
          /\ e.depth_first_appearance > 0
          /\ search_dll(entries, e.dllname, fs_cache).ok

\* the record run is specified to insert for a located file that cannot be read
Unreadable(name, depth, r) ==
    [dllname |-> name, depth_first_appearance |-> depth, found |-> TRUE,
     details |-> Some([is_api_set |-> r.location.kind = "ApiSet",
                       is_system |-> is_system(r.location),
                       is_known_dll |-> FALSE,
                       full_path |-> r.fullpath,
                       dependencies |-> None,
                       symbols |-> None])]

\* the file at path p cannot be opened or parsed as a PE file
NotAPEFile(p) ==
    \A f \in files :
        (f.dir = p.dir /\ to_lowercase(f.name) = to_lowercase(p.name)) => f.pe = "bad"

\* C12: when the file located for a name cannot be opened or parsed as a PE
\* file, run does not abort: it inserts the module as found with
\* dependencies None, enqueues nothing for it and continues with the queue.
C12_UnreadableFileIsRecorded ==
    [][(/\ AboutToLook
        /\ TopSearch.ok /\ IsSome(TopSearch.val)
        /\ NotAPEFile(TopSearch.val[1].fullpath)) =>
          /\ pc' = "loop"
          /\ executables_to_lookup' = Rest
          /\ executables_found' =
                executables_found @@
                    (to_lowercase(Top.dllname) :>
                        Unreadable(Top.dllname, Top.depth, TopSearch.val[1]))]_vars

\* C13: when search_dll returns an error for a dequeued name, the name gets a
\* not-found record and run continues with the remaining queue entries.
C13_LookupErrorIsNotFound ==
    [][(AboutToLook /\ ~TopSearch.ok) =>
          /\ executables_found' = WithNotFound(Top.dllname, Top.depth)
          /\ executables_to_lookup' = Rest
          /\ pc' = "loop"]_vars

\* C13 witness: run has returned a graph with a not-found record for a name
\* whose lookup fails with an error
C13_Witness ==
    /\ pc = "done"
    /\ \E e \in Records :
          /\ ~e.found
          /\ ~search_dll(entries, e.dllname, fs_cache).ok
    /\ \E e \in Records : e.found /\ e.depth_first_appearance > 0

\* entry e names a directory
IsDirectoryEntry(e) == e.kind \notin {"KnownDLLs", "ApiSet"}

\* C14: a directory entry whose directory does not exist behaves as a miss:
\* search_dll continues with the following entries and returns the hit of a
\* later entry that holds the file.
C14_MissingDirectoryIsMiss ==
    Probed =>
        LET n == probe.library[1]
            M == MatchingEntries(n)
        IN  \A first \in M :
              (/\ \A j \in M : first <= j
               /\ IsDirectoryEntry(entries[first])
               /\ \E i \in 1..(first - 1) :
                     IsDirectoryEntry(entries[i]) /\ entries[i].path \notin dirs
               /\ \A i \in 1..(first - 1) :
                     entries[i].kind = "ApiSet" => BaseName(n) \notin DOMAIN entries[i].map)
              => /\ probe.result.ok
                 /\ probe.result.val
                      = Some([location |-> entries[first],
                              fullpath |-> HitPath(entries[first], n)])

-----------------------------------------------------------------------------
(* Claims about the graph *)

\* the operation of the last direct call on the graph
ProbeOp == IF "op" \in DOMAIN probe THEN probe.op ELSE "none"

\* C15: inserting a record whose lowercased name is already a key of the
\* graph leaves the graph unchanged, and the graph holds at most one record
\* per case-insensitive name after any sequence of inserts.
C15_InsertIfAbsent ==
    /\ [][(/\ pc = "graph"
           /\ ProbeOp' = "insert"
           /\ \E r \in Records :
                 to_lowercase(r.dllname) = to_lowercase(probe'.arg.dllname))
          => executables_found' = executables_found]_vars
    /\ [](pc = "graph" =>
            \A r1, r2 \in Records :
                to_lowercase(r1.dllname) = to_lowercase(r2.dllname) => r1 = r2)

\* C15 witness: a record was inserted under a name that differs only in case
\* from the name of an earlier record with another depth, and the earlier
\* record is the one the graph holds
C15_Witness ==
    /\ ProbeOp = "insert"
    /\ \E r \in Records :
          /\ to_lowercase(r.dllname) = to_lowercase(probe.arg.dllname)
          /\ r.dllname # probe.arg.dllname
          /\ r.depth_first_appearance # probe.arg.depth_first_appearance
          /\ r.found # probe.arg.found

\* C16: in every reachable state of a run, every record of the graph has
\* found = false if and only if its details are absent.
C16_FoundIffDetails ==
    pc \in {"new", "loop", "done", "error", "panic"} =>
        \A e \in Records : (e.found = FALSE) <=> (e.details = None)

\* C16 witness: the graph of a run holds a found record with details and a
\* not-found record without
C16_Witness ==
    /\ pc \in {"loop", "done"}
    /\ \E e \in Records : e.found /\ IsSome(e.details)
    /\ \E e \in Records : ~e.found /\ e.details = None

\* the depths of the queue entries pushed for the name n
EnqueuedDepths(n) ==
    {j.depth : j \in {q \in enqueued : to_lowercase(q.dllname) = to_lowercase(n)}}

\* C17: for every record of the final graph, depth_first_appearance equals the
\* smallest depth of any queue entry that was enqueued for that name during
\* the run.
C17_SmallestEnqueuedDepth ==
    pc = "done" =>
        \A e \in Records :
            EnqueuedDepths(e.dllname) # {} =>
                \A d \in EnqueuedDepths(e.dllname) : e.depth_first_appearance <= d

\* C18: for every record inserted under a name, contains is true and get
\* returns that record for every name that differs from it only in letter
\* case; for a name with no record both report absence.
C18_CaseInsensitiveAccess ==
    ProbeOp = "get" =>
        LET same == {r \in Records :
                        /\ r.dllname.stem = probe.arg.stem
                        /\ r.dllname.ext = probe.arg.ext}
        IN  IF same = {}
            THEN ~probe.contains /\ probe.get = None
            ELSE probe.contains /\ IsSome(probe.get) /\ same = {probe.get[1]}

\* C18 witness: a record read back under a spelling it was not inserted under
C18_Witness ==
    /\ ProbeOp = "get"
    /\ probe.contains
    /\ IsSome(probe.get)
    /\ probe.get[1].dllname # probe.arg
    /\ probe.arg.cs = "upper"

\* C19: when a module is looked up under a name that differs in letter case
\* from the file on disk, the lookup succeeds and the name stored in the
\* record is the on-disk spelling.
C19_OnDiskSpelling ==
    \A j \in looked :
        \A f \in files :
            (/\ f.dir = AppDir
             /\ f.export = None
             /\ to_lowercase(f.name) = to_lowercase(j.dllname)
             /\ f.name # j.dllname
             /\ to_lowercase(j.dllname) \in DOMAIN executables_found)
            => executables_found[to_lowercase(j.dllname)].dllname = f.name

\* C20: get_root returns no record if and only if the graph is empty; on a
\* graph that is not empty it returns the record with depth 0 when there is
\* exactly one, and fails when there is none or more than one.
C20_GetRoot ==
    ProbeOp = "get_root" =>
        LET roots == {r \in Records : r.depth_first_appearance = 0}
        IN  /\ (probe.result.ok /\ probe.result.val = None) <=> (Records = {})
            /\ Records # {} =>
                 IF Cardinality(roots) = 1
                 THEN probe.result.ok /\ {probe.result.val[1]} = roots
                 ELSE ~probe.result.ok

\* C20 witness: get_root called on a graph with two records of depth 0
C20_Witness ==
    /\ ProbeOp = "get_root"
    /\ ~probe.result.ok
    /\ Cardinality({r \in Records : r.depth_first_appearance = 0}) = 2

\* C21: sorted_by_first_appearance returns every record of the graph exactly
\* once, in an order in which depth_first_appearance never decreases.
C21_SortedByFirstAppearance ==
    ProbeOp = "sorted" =>
        /\ Len(probe.result) = Cardinality(Records)
        /\ {probe.result[i] : i \in 1..Len(probe.result)} = Records
        /\ \A i, j \in 1..Len(probe.result) :
              i < j => probe.result[i].depth_first_appearance
                         <= probe.result[j].depth_first_appearance

\* C21 witness: three records of two depths have been sorted
C21_Witness ==
    /\ ProbeOp = "sorted"
    /\ Len(probe.result) = 3
    /\ probe.result[1].depth_first_appearance < probe.result[3].depth_first_appearance

\* the lowercased names reachable from the names of S along at most k
\* dependency lists of the graph
RECURSIVE Descendants(_, _)
Descendants(S, k) ==
    IF k = 0 THEN S
    ELSE Descendants(S \cup UNION {{to_lowercase(d) : d \in DepsOf(n)} : n \in S}, k - 1)

\* the record e is not-found or has a not-found record among its descendants
HasMissing(e) ==
    \E n \in Descendants({to_lowercase(e.dllname)}, Cardinality(Records)) :
        /\ n \in DOMAIN executables_found
        /\ ~executables_found[n].found

\* filter_only_notfound has returned a graph for the graph of the run
Filtered == pc = "done" /\ ProbeOp = "filter" /\ probe.result.what = "ok"

\* the records of the graph filter_only_notfound returned
FilteredRecords == {probe.result.graph[k] : k \in DOMAIN probe.result.graph}

\* C22: the graph returned by filter_only_notfound contains a record if and
\* only if that module is not-found or has a not-found module among its
\* descendants along dependency lists.
C22_FilterOnlyNotfound ==
    Filtered =>
        /\ FilteredRecords \subseteq Records
        /\ \A e \in Records : e \in FilteredRecords <=> HasMissing(e)

Checked == pc = "check" /\ ProbeOp = "check"

\* the found records check_imports visits as importers
Importers ==
    {e \in Records : e.found /\ IsSome(e.details) /\ ~e.details[1].is_api_set}

\* the names e imports symbols from whose record is found and not a system one
ResolvedExporters(e) ==
    IF ~IsSome(e.details[1].symbols) THEN {}
    ELSE {k \in DOMAIN e.details[1].symbols[1].imported :
            LET x == get(executables_found, k)
            IN  IsSome(x) /\ x[1].found /\ IsSome(x[1].details)
                /\ ~x[1].details[1].is_system /\ IsSome(x[1].details[1].symbols)}

\* the symbols the report lists as missing for importer and exporter
ReportedSymbols(report, importer, exporter) ==
    IF ~IsSome(report.not_found_symbols) THEN {}
    ELSE IF importer \notin DOMAIN report.not_found_symbols[1] THEN {}
    ELSE IF exporter \notin DOMAIN report.not_found_symbols[1][importer] THEN {}
    ELSE report.not_found_symbols[1][importer][exporter]

\* the pairs of importer and exporter the report lists
ListedPairs(report) ==
    IF ~IsSome(report.not_found_symbols) THEN {}
    ELSE UNION {{<<i, x>> : x \in DOMAIN report.not_found_symbols[1][i]} :
                  i \in DOMAIN report.not_found_symbols[1]}

\* the libraries the report lists as missing for importer
ReportedLibraries(report, importer) ==
    IF importer \in DOMAIN report.not_found_libraries
    THEN report.not_found_libraries[importer] ELSE {}

\* C24: with symbol extraction enabled, the report of check lists, for every
\* importer that is not an api set and every found exporter outside the system
\* it imports from, exactly the imported symbols the exporter does not export,
\* for all the exporters of the importer at once, and lists no pair with
\* nothing missing.
C24_MissingSymbols ==
    (Checked /\ query.parameters.extract_symbols) =>
        /\ \A e \in Importers : \A k \in ResolvedExporters(e) :
              ReportedSymbols(probe.result, e.dllname, k) =
                  {s \in e.details[1].symbols[1].imported[k] :
                     s \notin get(executables_found, k)[1].details[1].symbols[1].exported}
        /\ \A p \in ListedPairs(probe.result) :
              ReportedSymbols(probe.result, p[1], p[2]) # {}

\* C25: a symbol imported by ordinal is never reported missing by check when
\* the exporter was found, whatever the exporter exports.
C25_OrdinalNeverMissing ==
    Checked =>
        \A e \in Importers : \A k \in ResolvedExporters(e) :
            OrdinalName \notin ReportedSymbols(probe.result, e.dllname, k)

\* C26: for either value of extract_symbols, the report of check maps every
\* found importer to exactly the names in its dependency list whose record is
\* a not-found one.
C26_MissingLibraries ==
    Checked =>
        \A e \in Importers :
            IsSome(e.details[1].dependencies) =>
                ReportedLibraries(probe.result, e.dllname) =
                    {d \in Range(e.details[1].dependencies[1]) :
                       LET x == get(executables_found, d)
                       IN  IsSome(x) /\ ~x[1].found}

\* the last call of test_file_in_folder_case_insensitive returned Ok
Tested == pc = "cache" /\ ProbeOp = "test_file" /\ probe.ok

\* the files of the probed folder whose name is the probed one up to case
CaseMatches ==
    {f \in FilesIn(probe.folder) : to_lowercase(f.name) = to_lowercase(probe.filename)}

\* C27 as stated: a probe with any case variation of the name of a file F of D
\* returns D joined with the on-disk spelling of F, and a name matching no
\* file of D returns none.
C27_ProbeReturnsFile ==
    Tested =>
        /\ \A f \in CaseMatches : probe.val = Some(Path(probe.folder, f.name))
        /\ CaseMatches = {} => probe.val = None

\* C27: a probe with any case variation of the name of a file F of D returns
\* D joined with the on-disk spelling of a file of D that equals F up to case
\* (F itself when it is the only one), the same path for every variation; a
\* name matching no file of D returns none.
C27_CaseInsensitiveProbe ==
    [][Tested' =>
        /\ CaseMatches' # {} =>
              \E f \in CaseMatches' : probe'.val = Some(Path(probe'.folder, f.name))
        /\ CaseMatches' = {} => probe'.val = None
        /\ (Tested /\ probe.folder = probe'.folder
              /\ to_lowercase(probe.filename) = to_lowercase(probe'.filename))
               => probe'.val = probe.val]_vars

C27_Witness ==
    /\ Tested
    /\ probe.filename = LIB
    /\ Cardinality(CaseMatches) = 1
    /\ probe.val = Some(Path(AppDir, LibDll))
    /\ probe.read_dirs[AppDir] = 1

\* C28: every directory is enumerated at most once, and a snapshot once
\* stored is never changed or dropped.
C28_EnumeratedOnce ==
    [][/\ \A d \in DOMAIN fs_cache : d \in DOMAIN fs_cache' /\ fs_cache'[d] = fs_cache[d]
       /\ ProbeOp' = "test_file" => \A d \in CacheDirs : probe'.read_dirs[d] <= 1]_vars

\* C29: after the enumeration of a directory has failed, a later probe of it
\* does not enumerate it again.
C29_NoRetryAfterFailure ==
    [][(ProbeOp = "test_file" /\ ~probe.ok /\ ProbeOp' = "test_file"
          /\ probe'.folder = probe.folder)
        => probe'.read_dirs[probe.folder] = probe.read_dirs[probe.folder]]_vars

\* the last call of from_dwp_file read a file
FromDwp == pc = "path" /\ ProbeOp = "from_dwp_file" /\ IsSome(probe.content)

\* the keys of a .dwp file and the lines that are skipped
KnownLine(s) ==
    \/ s = <<>>
    \/ s[1] \in comment_chars
    \/ s \in {Line_SxS, Line_KnownDLLs, Line_AppDir, Line_32BitSysDir,
              Line_16BitSysDir, Line_OSDir, Line_AppPath, Line_SysPath}
    \/ starts_with(s, Prefix_UserDir)

\* the entries the token mapping gives a line, for what the query holds
TokenEntries(s, q) ==
    IF s = Line_KnownDLLs /\ IsSome(q.system) /\ IsSome(q.system[1].known_dlls)
    THEN <<KnownDLLsEntry(q.system[1].known_dlls[1])>>
    ELSE IF s = Line_AppDir THEN <<DirEntry("ExecutableDir", q.target.app_dir)>>
    ELSE IF s = Line_32BitSysDir /\ IsSome(q.system)
    THEN <<DirEntry("SystemDir", q.system[1].sys_dir)>>
    ELSE IF s = Line_OSDir /\ IsSome(q.system)
    THEN <<DirEntry("WindowsDir", q.system[1].win_dir)>>
    ELSE IF s = Line_SysPath /\ IsSome(q.system)
    THEN system_path_entries(q.system[1])
    ELSE IF s # <<>> /\ s[1] \notin comment_chars /\ starts_with(s, Prefix_UserDir)
    THEN <<DirEntry("UserPath", SubSeq(s, 9, Len(s)))>>
    ELSE <<>>

\* C30: from_dwp builds the entries in file order, KnownDLLs giving a KnownDLLs
\* entry, AppDir ExecutableDir, 32BitSysDir SystemDir, OSDir WindowsDir, SysPath
\* one SystemPath entry per directory of the system PATH, UserDir <path>
\* UserPath; SxS, 16BitSysDir, AppPath, blank and comment lines give nothing,
\* and any other line makes the construction fail.
C30_FromDwpMapping ==
    FromDwp =>
        LET content == probe.content[1]
        IN  IF \A i \in 1..Len(content) : KnownLine(content[i])
            THEN /\ probe.result.ok
                 /\ probe.result.val =
                       concat([i \in 1..Len(content) |-> TokenEntries(content[i], query)])
                 /\ entries = probe.result.val
            ELSE ~probe.result.ok

\* the names, lowercased, that search_dll was already called for
LookedNames == {to_lowercase(l.dllname) : l \in looked}

\* C31: during one run each module name, compared without case, is looked up
\* through search_dll at most once: a queue entry for a name that was already
\* processed is discarded without a lookup, also when the file's own name
\* differs from the name it was queried under.
C31_LookedUpOnce ==
    AboutToLook => to_lowercase(Top.dllname) \notin LookedNames

\* C32: once a record is in the graph it is never modified or removed for the
\* rest of the run: found, details and depth_first_appearance stay as inserted,
\* however often the name is observed again.
C32_RecordsAreStable ==
    [][\A k \in DOMAIN executables_found :
          /\ k \in DOMAIN executables_found'
          /\ executables_found'[k] = executables_found[k]]_vars

\* C32 witness: run has returned after registering a second finding for a
\* name that had a record: one file was looked up at two depths, and the graph
\* holds its record at one of them
C32_Witness ==
    /\ pc = "done"
    /\ \E a \in looked, b \in looked :
          /\ a.dllname = b.dllname
          /\ a.depth < b.depth
          /\ \E f \in files :
                /\ to_lowercase(f.name) = to_lowercase(a.dllname)
                /\ IsSome(f.export)
                /\ to_lowercase(f.export[1]) \in DOMAIN executables_found
                /\ executables_found[to_lowercase(f.export[1])].found
                /\ executables_found[to_lowercase(f.export[1])].depth_first_appearance
                       \in {a.depth, b.depth}

\* the records the step adds to the graph
NewRecords ==
    {executables_found'[k] : k \in DOMAIN executables_found' \ DOMAIN executables_found}

\* C33: the flags of a found record mirror the lookup-path entry of the hit:
\* is_known_dll exactly for the KnownDLLs entry, is_api_set exactly for the
\* ApiSet entry, is_system exactly for KnownDLLs, ApiSet, SystemDir, WindowsDir.
C33_FlagsMirrorLocation ==
    [][AboutToLook =>
          \A e \in NewRecords :
              e.found =>
                  /\ IsSome(TopSearch.val)
                  /\ LET L == TopSearch.val[1].location
                         d == e.details[1]
                     IN  /\ d.is_known_dll <=> (L.kind = "KnownDLLs")
                         /\ d.is_api_set <=> (L.kind = "ApiSet")
                         /\ d.is_system <=>
                               (L.kind \in {"KnownDLLs", "ApiSet", "SystemDir", "WindowsDir"})]_vars

\* the top of the queue is located outside the api sets, symbol extraction is
\* requested, and reading the symbols of its file fails
SymbolsFail ==
    /\ AboutToLook
    /\ query.parameters.extract_symbols
    /\ TopSearch.ok /\ IsSome(TopSearch.val)
    /\ TopSearch.val[1].location.kind # "ApiSet"
    /\ LET fm == FileMap_open(TopSearch.val[1].fullpath)
       IN  IsSome(fm) /\ ~read_symbols(fm[1]).ok /\ read_dependencies(fm[1]).ok
                      /\ fm[1].pe # "bad"

\* C34: when symbol extraction is requested and reading the exports or imports
\* of a located module outside the api sets fails, the run goes on: the module
\* is inserted as found with symbols absent and its dependencies are enqueued;
\* api-set modules never carry symbols.
C34_SymbolFailureIsTolerated ==
    [][/\ SymbolsFail =>
             /\ pc' = "loop"
             /\ \A e \in NewRecords :
                   /\ e.found /\ e.details[1].symbols = None
                   /\ IsSome(e.details[1].dependencies) =>
                         \A d \in Range(e.details[1].dependencies[1]) :
                             \/ contains(executables_found, d)
                             \/ \E i \in 1..Len(executables_to_lookup') :
                                   executables_to_lookup'[i].dllname = d
       /\ \A k \in DOMAIN executables_found' :
             (executables_found'[k].found /\ executables_found'[k].details[1].is_api_set)
                 => executables_found'[k].details[1].symbols = None]_vars

\* the top of the queue is located in a system directory and its file is read
SystemHit ==
    /\ AboutToLook
    /\ TopSearch.ok /\ IsSome(TopSearch.val)
    /\ TopSearch.val[1].location.kind \in {"KnownDLLs", "SystemDir", "WindowsDir"}
    /\ LET fm == FileMap_open(TopSearch.val[1].fullpath)
       IN  IsSome(fm) /\ fm[1].pe = "ok"

\* the names on the queue
QueuedNames(q) == {q[i].dllname : i \in 1..Len(q)}

\* C35: skip_system_dlls governs the pruning of the system subtree: when it
\* is false the dependencies of a module found in a system directory are
\* extracted and enqueued like those of any other module, and only when it is
\* true are they left unexplored.
C35_SkipSystemDllsToggle ==
    [][SystemHit =>
          LET f == FileMap_open(TopSearch.val[1].fullpath)[1]
          IN  IF query.parameters.skip_system_dlls
              THEN executables_to_lookup' = Rest
              ELSE \A d \in Range(f.imports) :
                       \/ contains(executables_found, d)
                       \/ d \in QueuedNames(executables_to_lookup')]_vars

\* C36: filter_only_notfound terminates and returns a graph for every graph
\* run can produce, also when the dependency lists form a cycle.
C36_FilterTerminates ==
    (pc = "done" /\ ProbeOp = "filter") => probe.result.what = "ok"

\* the probed name, lowercased and without .dll, is a key of the API-Set map
\* of the query
ProbedApiSetName ==
    /\ pc = "lookup"
    /\ Probed
    /\ IsSome(query.system)
    /\ IsSome(query.system[1].apiset_map)
    /\ trim_end_matches_dll(to_lowercase(probe.library[1]))
           \in DOMAIN query.system[1].apiset_map[1]

\* C37: on a lookup path built by deduce, a name that is a key of the API-Set
\* map is never resolved from a directory entry: search_dll returns the file
\* found in SystemDir/downlevel with location ApiSet, or no result when that
\* file or directory is missing, whatever ExecutableDir and the later entries
\* hold.
C37_ApiSetNotFromDirectory ==
    ProbedApiSetName =>
        LET n == probe.library[1]
            down == join(query.system[1].sys_dir, "downlevel")
        IN  IF down \in dirs /\ Holds(down, n) # {}
            THEN /\ probe.result.ok
                 /\ IsSome(probe.result.val)
                 /\ probe.result.val[1].location.kind = "ApiSet"
                 /\ probe.result.val[1].fullpath.dir = down
                 /\ probe.result.val[1].fullpath.name \in {f.name : f \in Holds(down, n)}
            ELSE probe.result.val = None

\* C37 witness: an api-set name was probed while the application directory
\* holds a file of that name and the downlevel directory none: nothing is
\* returned
C37_Witness ==
    /\ ProbedApiSetName
    /\ probe.library[1] = API
    /\ Holds(AppDir, API) # {}
    /\ Holds(DownDir, API) = {}
    /\ probe.result.val = None

\* C38: when run returns, every record other than the root is listed, ignoring
\* case, in the dependencies of a found record whose depth is exactly one less
\* than its own.
C38_RecordsHaveParents ==
    pc = "done" =>
        \A e \in Records :
            e.depth_first_appearance # 0 =>
                \E p \in FoundRecords :
                    /\ IsSome(p.details[1].dependencies)
                    /\ \E d \in Range(p.details[1].dependencies[1]) :
                          to_lowercase(d) = to_lowercase(e.dllname)
                    /\ p.depth_first_appearance + 1 = e.depth_first_appearance

=============================================================================
